---- MODULE Spec2Model ----
(***************************************************************************)
(* Model of the SignAi relay backends (daniellegraf/TRACE): the score      *)
(* normalizer normalizeScore / extractScore, the label thresholds, the     *)
(* image sniffer sniffType / getImageSize and the /detect-image and        *)
(* /analyze-image handlers that compose them.                              *)
(*                                                                         *)
(* Numbers are fixed-point: an integer n stands for the JavaScript number  *)
(* n / Unit, so 0.65 is 6500 and 87 is 870000.  The inputs are chosen so   *)
(* that every division the code performs is exact at this resolution.      *)
(* Strings are sequences of atoms: a single character ("8", ".", "%", " ") *)
(* or an opaque word that contains no digit, sign, dot, percent or space.  *)
(***************************************************************************)
EXTENDS Integers, Sequences, FiniteSets, TLC

\* the literal 100 of `x / 100` and `x <= 100`
Hundred == 100
\* fixed-point resolution: ticks per 1.0
Unit == Hundred * Hundred

-----------------------------------------------------------------------------
(* JavaScript values.  Every value is a record with the same three fields  *)
(* so that any two values can be compared.                                 *)

Undef     == [t |-> "undefined", n |-> 0, s |-> <<>>]
Null      == [t |-> "null",      n |-> 0, s |-> <<>>]
NaN       == [t |-> "nan",       n |-> 0, s |-> <<>>]
PosInf    == [t |-> "inf",       n |-> 1, s |-> <<>>]
NegInf    == [t |-> "inf",       n |-> 0 - 1, s |-> <<>>]
True      == [t |-> "boolean",   n |-> 1, s |-> <<>>]
False     == [t |-> "boolean",   n |-> 0, s |-> <<>>]
Num(k)    == [t |-> "number",    n |-> k, s |-> <<>>]
Str(a)    == [t |-> "string",    n |-> 0, s |-> a]
Ref(i)    == [t |-> "object",    n |-> i, s |-> <<>>]
\* an exception in flight (RangeError: Maximum call stack size exceeded,
\* TypeError on a property read of null, RangeError of an out-of-range read)
Thrown    == [t |-> "throw",     n |-> 0, s |-> <<>>]

\* JavaScript's typeof
TypeOf(v) ==
    CASE v.t \in {"number", "nan", "inf"} -> "number"
      [] v.t \in {"null", "object"}       -> "object"
      [] OTHER                            -> v.t

\* Number.isFinite
IsFinite(v) == v.t = "number"

\* ToBoolean
Truthy(v) ==
    CASE v.t = "number"  -> v.n # 0
      [] v.t = "inf"     -> TRUE
      [] v.t = "string"  -> v.s # <<>>
      [] v.t = "boolean" -> v.n = 1
      [] v.t = "object"  -> TRUE
      [] OTHER           -> FALSE

\* v === null || v === undefined
Nullish(v) == v.t \in {"null", "undefined"}

-----------------------------------------------------------------------------
(* Strings                                                                 *)

DigitChars == <<"0", "1", "2", "3", "4", "5", "6", "7", "8", "9">>
IsDigit(c) == \E i \in 1..Len(DigitChars) : DigitChars[i] = c
DigitVal(c) == (CHOOSE i \in 1..Len(DigitChars) : DigitChars[i] = c) - 1
IsSpace(c) == c = " "

\* String.prototype.replace("%", ""): removes the FIRST "%" only
ReplacePercent(a) ==
    IF \E i \in 1..Len(a) : a[i] = "%"
    THEN LET p == CHOOSE i \in 1..Len(a) : a[i] = "%" /\ \A j \in 1..(i - 1) : a[j] # "%"
         IN  SubSeq(a, 1, p - 1) \o SubSeq(a, p + 1, Len(a))
    ELSE a

RECURSIVE TrimStart(_)
TrimStart(a) == IF a # <<>> /\ IsSpace(Head(a)) THEN TrimStart(Tail(a)) ELSE a

RECURSIVE TrimEnd(_)
TrimEnd(a) ==
    IF a # <<>> /\ IsSpace(a[Len(a)]) THEN TrimEnd(SubSeq(a, 1, Len(a) - 1)) ELSE a

\* String.prototype.trim
Trim(a) == TrimEnd(TrimStart(a))

\* length of the longest run of digits of a that starts at index p
RECURSIVE DigitRun(_, _)
DigitRun(a, p) == IF p <= Len(a) /\ IsDigit(a[p]) THEN 1 + DigitRun(a, p + 1) ELSE 0

\* value of the digits a[p .. p+len-1] read as a decimal integer
RECURSIVE IntOf(_, _, _)
IntOf(a, p, len) ==
    IF len = 0 THEN 0 ELSE 10 * IntOf(a, p, len - 1) + DigitVal(a[p + len - 1])

\* ticks of the fraction digits a[p .. p+len-1]; digits beyond the
\* resolution of the model are dropped
FracOf(a, p, len) ==
    LET d(i) == IF i <= len THEN DigitVal(a[p + i - 1]) ELSE 0
    IN  d(1) * (Unit \div 10) + d(2) * (Unit \div 100) + d(3) * (Unit \div 1000)
        + d(4) * (Unit \div 10000)

\* the literal with il integer digits from index p on and fl fraction digits
\* after a dot: whether it is one, its value in ticks and its length
Literal(a, p, il, dot, fl) ==
    LET useDot == dot /\ (il > 0 \/ fl > 0)
        mag    == IntOf(a, p, il) * Unit + (IF useDot THEN FracOf(a, p + il + 1, fl) ELSE 0)
    IN  [ok  |-> il + fl > 0,
         val |-> IF p = 2 /\ a[1] = "-" THEN 0 - mag ELSE mag,
         len |-> (p - 1) + il + (IF useDot THEN 1 + fl ELSE 0)]

\* the fraction that may follow the il integer digits from index p on
Fraction(a, p, il) ==
    LET dot == p + il <= Len(a) /\ a[p + il] = "."
    IN  Literal(a, p, il, dot, IF dot THEN DigitRun(a, p + il + 1) ELSE 0)

\* the digits from index p on
Digits(a, p) == Fraction(a, p, DigitRun(a, p))

\* The longest prefix of a that is a decimal literal [+-]digits[.digits] or
\* [+-].digits
NumPrefix(a) == Digits(a, IF a # <<>> /\ a[1] \in {"+", "-"} THEN 2 ELSE 1)

\* the number a prefix r stands for
PrefixValue(r) == IF r.ok THEN Num(r.val) ELSE NaN

\* parseFloat: leading white space is skipped, the longest numeric prefix is
\* the value, anything after it is ignored; NaN when there is no such prefix
ParseFloat(a) == PrefixValue(NumPrefix(TrimStart(a)))

\* the number the whole string b is, given its numeric prefix r
WholeValue(b, r) ==
    IF b = <<>> THEN Num(0)
    ELSE IF r.ok /\ r.len = Len(b) THEN Num(r.val) ELSE NaN

\* the numeric prefix of b must be all of b
WholeString(b) == WholeValue(b, NumPrefix(b))

\* ToNumber of a string (the coercion of `1 - "0.2"`): the whole trimmed
\* string must be a numeric literal; the empty string is 0
StringToNumber(a) == WholeString(Trim(a))

\* ToNumber
ToNumber(v) ==
    CASE v.t \in {"number", "nan", "inf"} -> v
      [] v.t = "null"                     -> Num(0)
      [] v.t = "boolean"                  -> Num(v.n * Unit)
      [] v.t = "string"                   -> StringToNumber(v.s)
      [] OTHER                            -> NaN

\* the expression  1 - v
OneMinusNumber(x) ==
    CASE x.t = "number" -> Num(Unit - x.n)
      [] x.t = "inf"    -> [x EXCEPT !.n = 0 - x.n]
      [] OTHER          -> NaN

OneMinus(v) == OneMinusNumber(ToNumber(v))

\* the expression  x / 100  on a finite number
Div100(x) == Num(x.n \div Hundred)

-----------------------------------------------------------------------------
(* Score normalizer: src/unnamed/part_000                                  *)

\* the string branch of normalizeScore: x.replace("%", "").trim(), parseFloat
Cleaned(x) == IF x.t = "string" THEN ParseFloat(Trim(ReplacePercent(x.s))) ELSE x

\* the range tests of normalizeScore replaced by clamping
FoldRange_clamp(y) ==
    IF TypeOf(y) # "number" \/ ~IsFinite(y) THEN Null
    ELSE IF y.n > Unit THEN Num(Unit)
    ELSE IF y.n < 0 THEN Num(0)
    ELSE y

\* the range tests of normalizeScore with 1 itself read as a percentage
FoldRange_percent(y) ==
    IF TypeOf(y) # "number" \/ ~IsFinite(y) THEN Null
    ELSE IF y.n >= Unit /\ y.n <= Hundred * Unit THEN Div100(y)
    ELSE IF y.n >= 0 /\ y.n < Unit THEN y
    ELSE Null

\* the tests of normalizeScore on the number y: finite, then the two ranges
FoldRange(y) ==
    IF TypeOf(y) # "number" \/ ~IsFinite(y) THEN Null
    ELSE IF y.n > Unit /\ y.n <= Hundred * Unit THEN Div100(y)
    ELSE IF y.n >= 0 /\ y.n <= Unit THEN y
    ELSE Null

normalizeScore(x) == IF Nullish(x) THEN Null ELSE FoldRange(Cleaned(x))

-----------------------------------------------------------------------------
(* Objects.  A parsed response is a heap of nodes; a node is an object or  *)
(* an array with one value per property name the code ever reads, Undef    *)
(* standing for a property that is not there.  Ref(i) is a reference to    *)
(* node i, so a wrapper property can point back to an ancestor.            *)

\* the direct candidates of extractScore, in the order of its array literal
DirectKeys == <<"ai_probability", "aiProbability", "probability", "score",
                "aiScore", "ai_score", "ai">>
\* the nested containers of extractScore, in the order of its if-statements
NestedKeys == <<"data", "result", "output">>

Range(f) == {f[i] : i \in DOMAIN f}

Keys == Range(DirectKeys) \cup Range(NestedKeys) \cup
        {"human_probability", "content", "label", "is_ai", "is_human",
         "error", "isError", "0", "type", "text"}

EmptyObj == [k \in Keys |-> Undef]
Node(fields, isArr) == [f |-> fields, arr |-> isArr]
Obj(fields) == Node(fields, FALSE)

\* v.k : the property k of a value that is not null or undefined
Get(h, v, k) == IF v.t = "object" THEN h[v.n].f[k] ELSE Undef

\* v?.k
GetOpt(h, v, k) == IF Nullish(v) THEN Undef ELSE Get(h, v, k)

\* a ?? b
Coalesce(a, b) == IF Nullish(a) THEN b ELSE a

-----------------------------------------------------------------------------
(* extractScore: src/unnamed/part_000                                      *)

\* frames the engine's call stack holds before it raises RangeError
MaxCallDepth == 6

\* the array literal `candidates` of extractScore
Candidates(h, obj) ==
    [i \in 1..(Len(DirectKeys) + 1) |->
        IF i <= Len(DirectKeys) THEN Get(h, obj, DirectKeys[i])
        ELSE IF Truthy(Get(h, obj, "human_probability"))
             THEN OneMinus(Get(h, obj, "human_probability"))
             ELSE Null]

\* the loop returning the candidate c itself instead of s
FirstScore_raw(cs) ==
    IF \E i \in 1..Len(cs) : normalizeScore(cs[i]) # Null
    THEN LET p == CHOOSE i \in 1..Len(cs) :
                     /\ normalizeScore(cs[i]) # Null
                     /\ \A j \in 1..(i - 1) : normalizeScore(cs[j]) = Null
         IN  cs[p]
    ELSE Null

\* the loop `for (const c of candidates)`: the first normalized candidate
FirstScore(cs) ==
    IF \E i \in 1..Len(cs) : normalizeScore(cs[i]) # Null
    THEN LET p == CHOOSE i \in 1..Len(cs) :
                     /\ normalizeScore(cs[i]) # Null
                     /\ \A j \in 1..(i - 1) : normalizeScore(cs[j]) = Null
         IN  normalizeScore(cs[p])
    ELSE Null

RECURSIVE extractScore(_, _, _)
RECURSIVE Nested(_, _, _, _)
RECURSIVE OrNested(_, _, _, _)
RECURSIVE OrNext(_, _, _, _, _)

\* the if-statements on obj.data, obj.result, obj.output, from the i-th on
Nested(h, obj, i, depth) ==
    IF i > Len(NestedKeys) THEN Null
    ELSE IF Truthy(Get(h, obj, NestedKeys[i]))
         THEN OrNext(extractScore(h, Get(h, obj, NestedKeys[i]), depth + 1),
                     h, obj, i, depth)
         ELSE Nested(h, obj, i + 1, depth)

\* `if (s !== null) return s` after the recursive call on the i-th wrapper
OrNext(s, h, obj, i, depth) ==
    IF s # Null THEN s ELSE Nested(h, obj, i + 1, depth)

\* `if (s !== null) return s` in the loop over the candidates, else the
\* wrappers
OrNested(s, h, obj, depth) ==
    IF s # Null THEN s ELSE Nested(h, obj, 1, depth)

\* extractScore(obj), called with `depth` frames of it already on the stack
extractScore(h, obj, depth) ==
    IF depth >= MaxCallDepth THEN Thrown
    ELSE IF ~Truthy(obj) \/ TypeOf(obj) # "object" THEN Null
    ELSE OrNested(FirstScore(Candidates(h, obj)), h, obj, depth)

\* the label thresholds 0.65 and 0.35 of the /detect-image handler of part_000
AiThreshold == 65 * Hundred
HumanThreshold == 35 * Hundred

LabelAI      == Str(<<"AI">>)
LabelHuman   == Str(<<"Human">>)
LabelMixed   == Str(<<"Mixed">>)
LabelUnknown == Str(<<"Unknown">>)

\* the thresholds with strict comparisons
LabelOf_strict(aiScore) ==
    IF aiScore.n > AiThreshold THEN LabelAI
    ELSE IF aiScore.n < HumanThreshold THEN LabelHuman
    ELSE LabelMixed

LabelOf(aiScore) ==
    IF aiScore.n >= AiThreshold THEN LabelAI
    ELSE IF aiScore.n <= HumanThreshold THEN LabelHuman
    ELSE LabelMixed

-----------------------------------------------------------------------------
(* Image sniffer: src/unnamed/part_001 and src/server.js.  A buffer is a   *)
(* sequence of bytes; the code's index i is the sequence's index i + 1.    *)

\* buffer[i]: a byte, or undefined (here -1) at or past the end
At(buffer, i) == IF i >= 0 /\ i < Len(buffer) THEN buffer[i + 1] ELSE 0 - 1

\* whether buffer.readUInt16BE(i) / readUInt32BE(i) is within the buffer;
\* outside it the call raises RangeError
CanRead(buffer, i, n) == i >= 0 /\ i + n <= Len(buffer)

ReadUInt16BE(buffer, i) == buffer[i + 1] * 256 + buffer[i + 2]
ReadUInt32BE(buffer, i) ==
    ((buffer[i + 1] * 256 + buffer[i + 2]) * 256 + buffer[i + 3]) * 256 + buffer[i + 4]

\* "RIFF" at 0 and "WEBP" at 8, in a buffer longer than 12
IsWebp(buffer) ==
    /\ Len(buffer) > 12
    /\ At(buffer, 0) = 82 /\ At(buffer, 1) = 73 /\ At(buffer, 2) = 70 /\ At(buffer, 3) = 70
    /\ At(buffer, 8) = 87 /\ At(buffer, 9) = 69 /\ At(buffer, 10) = 66 /\ At(buffer, 11) = 80

\* sniffType of src/unnamed/part_001: jpeg is tested first, png by two bytes
sniffType_part001(buffer) ==
    IF Len(buffer) < 12 THEN "unknown"
    ELSE IF At(buffer, 0) = 255 /\ At(buffer, 1) = 216 THEN "jpeg"
    ELSE IF At(buffer, 0) = 137 /\ At(buffer, 1) = 80 THEN "png"
    ELSE IF IsWebp(buffer) THEN "webp"
    ELSE "unknown"

\* sniffType of src/server.js (its .type): png by four bytes, then jpeg
sniffType_server(buffer) ==
    IF Len(buffer) < 12 THEN "unknown"
    ELSE IF Len(buffer) > 8 /\ At(buffer, 0) = 137 /\ At(buffer, 1) = 80
            /\ At(buffer, 2) = 78 /\ At(buffer, 3) = 71 THEN "png"
    ELSE IF Len(buffer) > 3 /\ At(buffer, 0) = 255 /\ At(buffer, 1) = 216 THEN "jpeg"
    ELSE IF IsWebp(buffer) THEN "webp"
    ELSE "unknown"

NoSize     == [t |-> "null",  width |-> 0, height |-> 0]
SizeThrown == [t |-> "throw", width |-> 0, height |-> 0]
Size(w, h) == [t |-> "size",  width |-> w, height |-> h]

\* the while loop of getImageSize, from index i on
RECURSIVE JpegScan(_, _)
JpegScan(buffer, i) ==
    IF ~(i < Len(buffer)) THEN NoSize
    ELSE IF At(buffer, i) # 255 THEN JpegScan(buffer, i + 1)
    ELSE IF ~CanRead(buffer, i + 2, 2) THEN SizeThrown
    ELSE IF At(buffer, i + 1) \in {192, 194}
         THEN IF CanRead(buffer, i + 5, 2) /\ CanRead(buffer, i + 7, 2)
              THEN Size(ReadUInt16BE(buffer, i + 7), ReadUInt16BE(buffer, i + 5))
              ELSE SizeThrown
    ELSE JpegScan(buffer, i + 2 + ReadUInt16BE(buffer, i + 2))

\* getImageSize: the same text in src/unnamed/part_001 and src/server.js
getImageSize(buffer) ==
    IF Len(buffer) > 24 /\ At(buffer, 0) = 137 /\ At(buffer, 1) = 80
    THEN Size(ReadUInt32BE(buffer, 16), ReadUInt32BE(buffer, 20))
    ELSE IF Len(buffer) > 4 /\ At(buffer, 0) = 255 /\ At(buffer, 1) = 216
    THEN JpegScan(buffer, 2)
    ELSE NoSize

\* the smallest side the handlers accept
MinSide == 256

-----------------------------------------------------------------------------
(* State                                                                   *)

VARIABLES
    fn,         \* the function applied last to arg ("none" before any call)
    arg,        \* the argument of a direct call of normalizeScore / extractScore
    heap,       \* the nodes that arg, or the provider's reply, refers to
    ret,        \* what the call returned (Thrown when it raised)
    lab,        \* the label the thresholds give for ret (Undef before)
    handler,    \* the service variant that handles the request
    pc,         \* "idle", "awaiting" (the provider call is in flight), "responded"
    file,       \* the upload: whether req.file is there, and req.file.buffer
    realType,   \* what sniffType said of the upload ("none": not sniffed)
    size,       \* what getImageSize said of the upload
    reply,      \* the provider's reply to the call in flight
    staged,     \* files written to the upload directory by this request
    forwarded,  \* calls made to the provider by this request
    extracted,  \* the score the handler read from the reply (Null: none)
    res         \* the response sent: status, ai_score, label, and whether it is
                \* the handler's final return ("result") or an earlier one ("error")

vars == <<fn, arg, heap, ret, lab, handler, pc, file, realType, size, reply,
          staged, forwarded, extracted, res>>

-----------------------------------------------------------------------------
(* Inputs of the direct calls                                              *)

\* hundredths below 0 and above 100 that the numeric inputs reach
BelowZero == 150
AboveHundred == 5000
\* longest generated string
MaxStrLen == 4

\* the number k/100
P(k) == Num(k * Hundred)

\* every multiple of 0.01 from -BelowZero/100 to 100 + AboveHundred/100, and
\* every multiple of 0.0001 of [0,1]
NumberInputs ==
    {P(k) : k \in (0 - BelowZero)..(Hundred * Hundred + AboveHundred)}
    \cup {Num(k) : k \in 0..Unit}

StrAlphabet == {"8", "0", ".", "%", " ", "-", "x"}

StringsOfLen(n) == [1..n -> StrAlphabet]

StringInputs ==
    {Str(a) : a \in UNION {StringsOfLen(n) : n \in 0..MaxStrLen}}
    \cup {Str(<<"8", "7", "%">>), Str(<<"8", "7">>), Str(<<"0", ".", "8", "7">>),
          Str(<<"0", ".", "2">>), Str(<<"2", "0", "%">>), Str(<<"1", "5", "0">>),
          Str(<<"not", " ", "a", " ", "number">>), Str(<<"8", "7", "abc">>),
          Str(<<" ", "8", "7", "%", " ">>), Str(<<"1", "0", "0", "%">>)}

ScalarInputs ==
    NumberInputs \cup StringInputs \cup {Undef, Null, NaN, PosInf, NegInf, True, False}

\* values tried as the only candidate of an object
ScoreVals ==
    {P(k) : k \in {0 - 7900, 0 - 50, 0, 1, 20, 35, 50, 65, 77, 80, 90, 100, 150,
                   2000, 3000, 8000, 8700, 10000, 10001, 15000}}
    \cup {Null, NaN, PosInf, True, False, Ref(1),
          Str(<<"0", ".", "2">>), Str(<<"2", "0", "%">>), Str(<<"8", "0">>),
          Str(<<"8", "7", "%">>), Str(<<"abc">>), Str(<<>>)}

\* values tried when two candidates, or an outer and a nested one, compete
PairVals ==
    {Null, P(0), P(30), P(90), P(8000), P(15000), Str(<<"abc">>)}
LeafVals == {P(77), P(3000), P(15000), Str(<<"abc">>)}

AllCandKeys == Range(DirectKeys) \cup {"human_probability"}
AllWrappers == Range(NestedKeys) \cup {"content"}

With1(k, v) == [EmptyObj EXCEPT ![k] = v]
With2(o, k, v) == [o EXCEPT ![k] = v]

\* { k: v }
OneField == {<<Obj(With1(k, v))>> : k \in AllCandKeys, v \in ScoreVals}

\* { k1: v1, k2: v2 }
TwoFields ==
    {<<Obj(With2(With1(kv[1], kv[2]), kv[3], kv[4]))>> :
        kv \in {x \in AllCandKeys \X PairVals \X AllCandKeys \X PairVals : x[1] # x[3]}}

OuterFields ==
    {EmptyObj} \cup {With1(k, v) : k \in {"score", "ai", "human_probability"},
                                   v \in {P(90), P(15000)}}

\* { [k0: v0,] w1: { k: v } }  and  { [k0: v0,] w1: { w2: { k: v } } }
Wrapped1 ==
    {<<Obj(With2(x[1], x[2], Ref(2))), Obj(With1(x[3], x[4]))>> :
        x \in OuterFields \X AllWrappers \X AllCandKeys \X LeafVals}
Wrapped2 ==
    {<<Obj(With2(x[1], x[2], Ref(2))), Obj(With1(x[3], Ref(3))), Obj(With1(x[4], x[5]))>> :
        x \in OuterFields \X AllWrappers \X AllWrappers \X {"ai_score", "score"} \X LeafVals}

\* { w1: { score: v1 }, w2: { score: v2 } }
TwoWrappers ==
    {<<Obj(With2(With1(x[1], Ref(2)), x[2], Ref(3))),
       Obj(With1("score", x[3])), Obj(With1("score", x[4]))>> :
        x \in {y \in AllWrappers \X AllWrappers \X LeafVals \X LeafVals : y[1] # y[2]}}

\* a wrapper that holds a scalar, or an array of one text item
ScalarWrapped ==
    {<<Obj(With1(w, v))>> : w \in AllWrappers, v \in {P(90), Str(<<"abc">>), True, P(0)}}
    \cup {<<Obj(With1(w, Ref(2))), Node(With1("0", Ref(3)), TRUE),
            Obj(With2(With1("type", Str(<<"text">>)), "text", Str(<<"abc">>)))>> :
            w \in AllWrappers}

\* trees, as JSON.parse builds them
TreeHeaps == OneField \cup TwoFields \cup Wrapped1 \cup Wrapped2 \cup TwoWrappers
             \cup ScalarWrapped \cup {<<Obj(EmptyObj)>>}

\* self-referential structures: o.w = o, and o.w1 = p with p.w2 = o, with or
\* without a candidate of the outer object
CyclicHeaps ==
    {<<Obj(With2(o, w, Ref(1)))>> : o \in OuterFields, w \in AllWrappers}
    \cup {<<Obj(With2(x[1], x[2], Ref(2))), Obj(With1(x[3], Ref(1)))>> :
            x \in OuterFields \X AllWrappers \X AllWrappers}
    \cup {<<Obj(With2(With1(x[1], Ref(1)), x[2], Ref(2))), Obj(With1("score", P(90)))>> :
            x \in {y \in AllWrappers \X AllWrappers : y[1] # y[2]}}

HeapInputs == TreeHeaps \cup CyclicHeaps

PureInputs ==
    {[h |-> <<>>, v |-> x] : x \in ScalarInputs}
    \cup {[h |-> hp, v |-> Ref(1)] : hp \in HeapInputs}

\* the handler part of the state, before any request
NoRes == [status |-> 0, ai_score |-> Undef, label |-> Undef, kind |-> "none"]
NoFile == [present |-> FALSE, buffer |-> <<>>]
NoReply == [kind |-> "none", httpOk |-> FALSE, root |-> Undef]
HandlerIdle ==
    /\ handler = "none"
    /\ pc = "idle"
    /\ file = NoFile
    /\ realType = "none"
    /\ size = NoSize
    /\ reply = NoReply
    /\ staged = 0
    /\ forwarded = 0
    /\ extracted = Undef
    /\ res = NoRes

handlerVars == <<handler, pc, file, realType, size, reply, staged, forwarded, extracted, res>>

-----------------------------------------------------------------------------
(* Direct calls of the pure functions                                      *)

InitPure ==
    /\ \E inp \in PureInputs : heap = inp.h /\ arg = inp.v
    /\ fn = "none"
    /\ ret = Undef
    /\ lab = Undef
    /\ HandlerIdle

\* normalizeScore(arg)
CallNormalizeScore ==
    /\ fn = "none"
    /\ fn' = "normalizeScore"
    /\ ret' = normalizeScore(arg)
    /\ UNCHANGED <<arg, heap, lab, handlerVars>>

\* extractScore(arg)
CallExtractScore ==
    /\ fn = "none"
    /\ fn' = "extractScore"
    /\ ret' = extractScore(heap, arg, 0)
    /\ UNCHANGED <<arg, heap, lab, handlerVars>>

\* the label thresholds, applied to a score that was produced
CallLabel ==
    /\ fn \in {"normalizeScore", "extractScore"}
    /\ ret.t = "number"
    /\ lab = Undef
    /\ lab' = LabelOf(ret)
    /\ UNCHANGED <<fn, arg, heap, ret, handlerVars>>

NextPure == CallNormalizeScore \/ CallExtractScore \/ CallLabel

SpecPure == InitPure /\ [][NextPure]_vars

-----------------------------------------------------------------------------
(* The handlers' inputs: uploads and provider replies                      *)

U16(x) == <<x \div 256, x % 256>>
U32(x) == <<0, 0>> \o U16(x)

\* a PNG header: signature, IHDR chunk with width w and height h
PngBuf(w, hgt) ==
    <<137, 80, 78, 71, 13, 10, 26, 10, 0, 0, 0, 13, 73, 72, 68, 82>>
    \o U32(w) \o U32(hgt) \o <<8>>

\* a JPEG that starts with an SOF0 segment of height hgt and width w
JpegBuf(hgt, w) ==
    <<255, 216, 255, 192, 0, 17, 8>> \o U16(hgt) \o U16(w) \o <<3, 0, 0>>

Zeros(n) == [i \in 1..n |-> 0]

Buffers ==
    { <<>>,
      <<255, 216, 255, 224, 0>>,                         \* 5 bytes, cut in a length field
      <<137, 80, 78, 71, 13, 10, 26, 10, 0, 0, 0>>,      \* 11 bytes of a PNG
      Zeros(12),
      PngBuf(800, 600), PngBuf(255, 600), PngBuf(256, 256), PngBuf(600, 100),
      <<137, 80>> \o Zeros(14) \o U32(800) \o U32(600) \o <<8>>,
      JpegBuf(100, 100), JpegBuf(300, 300), JpegBuf(255, 300),
      <<255, 216>> \o Zeros(9) \o <<255>>,               \* a marker cut by the end
      <<255, 216, 255, 224, 0, 16>> \o Zeros(6),         \* no SOF segment
      <<82, 73, 70, 70, 0, 0, 0, 0, 87, 69, 66, 80, 0>>, \* RIFF....WEBP, 13 bytes
      <<82, 73, 70, 70, 0, 0, 0, 0, 87, 69, 66, 80>> }   \* the same, 12 bytes

Uploads == {[present |-> TRUE, buffer |-> b] : b \in Buffers} \cup {NoFile}

ReplyScoreKeys == {"ai_score", "ai_probability", "score", "aiProbability", "human_probability"}
ReplyScoreVals ==
    {P(0), P(20), P(50), P(90), P(8700), P(15000), P(0 - 50), Null, Str(<<"8", "7", "%">>)}
ReplyLabels ==
    {<<"label", Undef>>, <<"label", Str(<<"AI">>)>>, <<"label", Str(<<"Fake">>)>>,
     <<"label", Str(<<>>)>>, <<"is_ai", True>>, <<"is_ai", False>>, <<"is_human", True>>}

\* the object that carries the score and label properties
Payloads ==
    {With2(o, l[1], l[2]) :
        o \in {EmptyObj} \cup {With1(k, v) : k \in ReplyScoreKeys, v \in ReplyScoreVals},
        l \in ReplyLabels}

TextItem(a) == Obj(With2(With1("type", Str(<<"text">>)), "text", a))

\* JSON bodies: the payload at the top (REST), under result or data, or under
\* result.output / result.content / result.data (RPC), and the error shapes
ReplyHeaps ==
    {<<Obj(pl)>> : pl \in Payloads}
    \cup {<<Obj(With1(w, Ref(2))), Obj(pl)>> : w \in {"result", "data"}, pl \in Payloads}
    \cup {<<Obj(With1("result", Ref(2))), Obj(With1(w, Ref(3))), Obj(pl)>> :
            w \in {"output", "content", "data"}, pl \in Payloads}
    \cup {<<Obj(With1("result", Ref(2))), Obj(With1("content", Ref(3))),
            Node(With1("0", Ref(4)), TRUE), TextItem(a)>> :
            a \in {Str(<<"There was an error">>), Str(<<"abc">>), P(100)}}
    \cup {<<Obj(With1("error", Ref(2))), Obj(EmptyObj)>>,
          <<Obj(With1("result", Ref(2))), Obj(With1("isError", True))>>}

JsonReply(ok, v) == [kind |-> "json", httpOk |-> ok, root |-> v]

\* what can come back: a JSON body with a 2xx status, some of them with an
\* error status, a JSON scalar or null, a body that is no JSON, no reply at all
Replies ==
    {[h |-> hp, rp |-> JsonReply(TRUE, Ref(1))] : hp \in ReplyHeaps}
    \cup {[h |-> <<Obj(With1("score", P(90)))>>, rp |-> JsonReply(FALSE, Ref(1))],
          [h |-> <<>>, rp |-> JsonReply(TRUE, Null)],
          [h |-> <<>>, rp |-> JsonReply(TRUE, P(90))],
          [h |-> <<>>, rp |-> [kind |-> "text", httpOk |-> TRUE, root |-> Undef]],
          [h |-> <<>>, rp |-> [kind |-> "text", httpOk |-> FALSE, root |-> Undef]],
          [h |-> <<>>, rp |-> [kind |-> "fail", httpOk |-> FALSE, root |-> Undef]]}

-----------------------------------------------------------------------------
(* The handlers.  Each is two steps: the request up to the awaited call of *)
(* the provider, and the rest once the reply is there.                     *)

Half == P(50)
Res(st, sc, lb, kd) == [status |-> st, ai_score |-> sc, label |-> lb, kind |-> kd]
ErrorRes(st, word) == Res(st, Half, Str(<<word>>), "error")
Outcome(r, e) == [res |-> r, extracted |-> e]

\* callWinstonImage once fetch has settled (part_000; the same in server.js)
callWinstonImage(h, rp) ==
    LET data == IF rp.kind = "json" THEN rp.root ELSE Null
    IN  IF rp.kind = "fail" THEN [t |-> "throw", data |-> Undef]
        ELSE IF ~rp.httpOk \/ Truthy(GetOpt(h, data, "error"))
             THEN [t |-> "notok", data |-> data]
        ELSE IF Nullish(data) THEN [t |-> "throw", data |-> Undef]
        ELSE [t |-> "ok", data |-> Get(h, data, "result")]

\* /detect-image of part_000: the answer for what extractScore gave
Part000Answer(e) ==
    CASE e = Thrown -> Outcome(ErrorRes(500, "Server error"), Undef)
      [] e = Null   -> Outcome(Res(200, Half, LabelUnknown, "result"), Null)
      [] OTHER      -> Outcome(Res(200, e, LabelOf(e), "result"), e)

\* /detect-image of part_000, from the reply on
Part000Result(h, rp) ==
    LET w == callWinstonImage(h, rp)
    IN  CASE w.t = "throw" -> Outcome(ErrorRes(500, "Server error"), Undef)
          [] w.t = "notok" -> Outcome(ErrorRes(502, "Winston error"), Undef)
          [] OTHER         -> Part000Answer(extractScore(h, w.data, 0))

\* /detect-image of server.js (third service), from the reply on
ServerCResult(h, rp) ==
    LET w == callWinstonImage(h, rp)
        d == w.data
        candidate ==
            Coalesce(GetOpt(h, d, "ai_probability"),
            Coalesce(GetOpt(h, d, "aiProbability"),
            Coalesce(GetOpt(h, d, "score"), GetOpt(h, d, "probability"))))
        found == TypeOf(candidate) = "number" /\ IsFinite(candidate)
        aiScore == IF found
                   THEN (IF candidate.n > Unit THEN Div100(candidate) ELSE candidate)
                   ELSE Half
    IN  CASE w.t = "throw" -> Outcome(ErrorRes(500, "Server error"), Undef)
          [] w.t = "notok" -> Outcome(ErrorRes(502, "Winston error"), Undef)
          [] OTHER ->
               Outcome(Res(200, aiScore,
                           IF aiScore.n >= Half.n THEN LabelAI ELSE LabelHuman, "result"),
                       IF found THEN aiScore ELSE Null)

\* winstonRes.data of axios: the parsed body, or the body's text
AxiosData(rp) == IF rp.kind = "json" THEN rp.root ELSE Str(<<"body">>)

\* result?.output ?? result?.content ?? result, with result = data?.result ?? data
PayloadOf(h, data) ==
    LET result == Coalesce(GetOpt(h, data, "result"), data)
    IN  Coalesce(GetOpt(h, result, "output"), Coalesce(GetOpt(h, result, "content"), result))

\* the chain of typeof tests on ai_score, ai_probability, score, then / 100
InlineScore(h, payload) ==
    LET a == GetOpt(h, payload, "ai_score")
        b == GetOpt(h, payload, "ai_probability")
        c == GetOpt(h, payload, "score")
        x == IF TypeOf(a) = "number" THEN a
             ELSE IF TypeOf(b) = "number" THEN b
             ELSE IF TypeOf(c) = "number" THEN c
             ELSE Null
    IN  IF x # Null /\ x.n > Unit THEN Div100(x) ELSE x

BoolLabel(v, yes, no) ==
    IF TypeOf(v) = "boolean" THEN (IF Truthy(v) THEN yes ELSE no) ELSE Null

\* /detect-image of part_001, from the reply on
Part001Result(h, rp) ==
    LET data    == AxiosData(rp)
        payload == PayloadOf(h, data)
        x       == InlineScore(h, payload)
        label   == Coalesce(GetOpt(h, payload, "label"),
                   Coalesce(BoolLabel(GetOpt(h, payload, "is_ai"), LabelAI, LabelHuman),
                            LabelUnknown))
    IN  IF rp.kind = "fail" THEN Outcome(ErrorRes(500, "Server error"), Undef)
        ELSE IF Truthy(GetOpt(h, data, "error"))
                \/ Truthy(GetOpt(h, GetOpt(h, data, "result"), "isError"))
        THEN Outcome(ErrorRes(502, "Winston error"), Undef)
        ELSE Outcome(Res(200, IF x = Null THEN Half ELSE x, label, "result"), x)

\* includes("there was an error") of the lower-cased text
SaysError(a) == \E i \in 1..Len(a) : a[i] \in {"there was an error", "There was an error"}

\* winstonText: result.content[0].text when content is an array of a text item
WinstonText(h, data) ==
    LET arr == GetOpt(h, GetOpt(h, data, "result"), "content")
    IN  IF arr.t = "object" /\ h[arr.n].arr
           /\ GetOpt(h, Get(h, arr, "0"), "type") = Str(<<"text">>)
        THEN GetOpt(h, Get(h, arr, "0"), "text")
        ELSE Null

\* /detect-image of server.js (second service), from the reply on; every
\* response of it is sent with res.json, status 200
ServerBResult(h, rp) ==
    LET data    == AxiosData(rp)
        text    == WinstonText(h, data)
        payload == PayloadOf(h, data)
        x       == InlineScore(h, payload)
        l0      == Coalesce(GetOpt(h, payload, "label"), Null)
        l1      == IF ~Truthy(l0) /\ TypeOf(GetOpt(h, payload, "is_ai")) = "boolean"
                   THEN BoolLabel(GetOpt(h, payload, "is_ai"), LabelAI, LabelHuman)
                   ELSE l0
        l2      == IF ~Truthy(l1) /\ TypeOf(GetOpt(h, payload, "is_human")) = "boolean"
                   THEN BoolLabel(GetOpt(h, payload, "is_human"), LabelHuman, LabelAI)
                   ELSE l1
        label   == IF ~Truthy(l2) THEN LabelUnknown ELSE l2
    IN  IF rp.kind = "fail"
        THEN Outcome(ErrorRes(200, "Error contacting Winston"), Undef)
        ELSE IF Truthy(GetOpt(h, data, "error"))
        THEN Outcome(ErrorRes(200, "Winston error"), Undef)
        ELSE IF Truthy(text) /\ text.t # "string"
        THEN Outcome(ErrorRes(200, "Error contacting Winston"), Undef)
        ELSE IF Truthy(text) /\ SaysError(text.s)
        THEN Outcome(ErrorRes(200, "Winston error"), Undef)
        ELSE Outcome(Res(200, IF x = Null THEN Half ELSE x, label, "result"), x)

\* the expression  1 - (humanScore / 100)
OneMinusPercent(v) ==
    LET x == ToNumber(v)
    IN  IF x.t = "number" THEN Num(Unit - (x.n \div Hundred))
        ELSE IF x.t = "inf" THEN [x EXCEPT !.n = 0 - x.n]
        ELSE NaN

\* /analyze-image of index.js, from the reply on
IndexResult(h, rp) ==
    LET data      == rp.root
        aiProb    == Get(h, data, "ai_probability")
        aiScore01 == IF TypeOf(aiProb) = "number" THEN aiProb
                     ELSE OneMinusPercent(Get(h, data, "score"))
        label     == IF aiScore01.t = "number" /\ aiScore01.n > 75 * Hundred
                     THEN Str(<<"AI-leaning">>)
                     ELSE IF aiScore01.t = "number" /\ aiScore01.n > 45 * Hundred
                     THEN Str(<<"Mixed / uncertain">>)
                     ELSE Str(<<"Human-leaning">>)
    IN  IF rp.kind = "fail" \/ ~rp.httpOk \/ rp.kind # "json" \/ Nullish(data)
        THEN Outcome(Res(500, Undef, Undef, "error"), Undef)
        ELSE Outcome(Res(200, aiScore01, label, "result"),
                     IF aiScore01.t = "number" THEN aiScore01 ELSE Null)

pureVars == <<fn, arg, ret, lab>>

Init ==
    /\ fn = "none"
    /\ arg = Undef
    /\ heap = <<>>
    /\ ret = Undef
    /\ lab = Undef
    /\ HandlerIdle

\* a return before the provider is called
RespondEarly(r) ==
    /\ pc' = "responded"
    /\ res' = r
    /\ forwarded' = 0
    /\ UNCHANGED <<heap, reply, extracted>>

\* fs.writeFileSync, then the call of the provider, awaited
StageAndForward ==
    /\ staged' = 1
    /\ forwarded' = 1
    /\ pc' = "awaiting"
    /\ UNCHANGED <<heap, reply, extracted, res>>

\* what the handler `name` answers to the reply rp
ResultOf(name, h, rp) ==
    CASE name = "part000" -> Part000Result(h, rp)
      [] name = "part001" -> Part001Result(h, rp)
      [] name = "serverB" -> ServerBResult(h, rp)
      [] name = "serverC" -> ServerCResult(h, rp)
      [] name = "index"   -> IndexResult(h, rp)

\* the handler answers with the outcome o
Respond(o) ==
    /\ res' = o.res
    /\ extracted' = o.extracted

\* the reply arrives and the handler `name` finishes
Finish(name) ==
    /\ pc = "awaiting"
    /\ handler = name
    /\ \E r \in Replies :
          /\ heap' = r.h
          /\ reply' = r.rp
          /\ Respond(ResultOf(name, r.h, r.rp))
    /\ pc' = "responded"
    /\ UNCHANGED <<pureVars, handler, file, realType, size, staged, forwarded>>

\* /detect-image of part_000 and of server.js (third service): no file is a
\* 400; otherwise the file is written, and without an API key
\* callWinstonImage returns at once and the answer is a 502
UnvalidatedRequest(name) ==
    /\ pc = "idle"
    /\ handler' = name
    /\ \E f \in Uploads, key \in BOOLEAN :
          /\ file' = f
          /\ IF ~f.present
             THEN staged' = 0 /\ RespondEarly(ErrorRes(400, "No image uploaded"))
             ELSE IF ~key
             THEN staged' = 1 /\ RespondEarly(ErrorRes(502, "Winston error"))
             ELSE StageAndForward
    /\ UNCHANGED <<pureVars, realType, size>>

Part000Request == UnvalidatedRequest("part000")
Part000Reply == Finish("part000")

ServerCRequest == UnvalidatedRequest("serverC")
ServerCReply == Finish("serverC")

\* the checks of part_001 on the sniffed upload: the response that rejects
\* it, or NoRes when it passes
Part001Validate(type, sz) ==
    IF sz.t = "throw" THEN ErrorRes(500, "Server error")
    ELSE IF type \notin {"jpeg", "png", "webp"}
    THEN ErrorRes(400, "Error: unsupported image type")
    ELSE IF sz.t = "size" /\ (sz.width < MinSide \/ sz.height < MinSide)
    THEN ErrorRes(400, "Error: image too small")
    ELSE NoRes

\* the same checks in server.js (second service): png and jpeg only, every
\* rejection sent with res.json, status 200
ServerBValidate(type, sz) ==
    IF sz.t = "throw" THEN ErrorRes(200, "Error contacting Winston")
    ELSE IF type # "jpeg" /\ type # "png"
    THEN ErrorRes(200, "Error: uploaded file is not a PNG/JPEG image")
    ELSE IF sz.t = "size" /\ (sz.width < MinSide \/ sz.height < MinSide)
    THEN ErrorRes(200, "Error: image too small")
    ELSE NoRes

\* sniffType as the handler `name` defines it
SniffOf(name, buffer) ==
    IF name = "part001" THEN sniffType_part001(buffer) ELSE sniffType_server(buffer)

\* the validation of the handler `name`
ValidateOf(name, type, sz) ==
    IF name = "part001" THEN Part001Validate(type, sz) ELSE ServerBValidate(type, sz)

\* its answers without a file and without an API key
NoFileRes(name) ==
    ErrorRes(IF name = "part001" THEN 400 ELSE 200, "Error: no image uploaded")
NoKeyRes(name) ==
    ErrorRes(IF name = "part001" THEN 500 ELSE 200, "Error: WINSTON_API_KEY missing")

\* a handler that sniffs the upload before it stages it
ValidatedRequest(name) ==
    /\ pc = "idle"
    /\ handler' = name
    /\ \E f \in Uploads, key \in BOOLEAN :
          /\ file' = f
          /\ IF ~f.present
             THEN staged' = 0 /\ RespondEarly(NoFileRes(name)) /\ UNCHANGED <<realType, size>>
             ELSE IF ~key
             THEN staged' = 0 /\ RespondEarly(NoKeyRes(name)) /\ UNCHANGED <<realType, size>>
             ELSE /\ realType' = SniffOf(name, f.buffer)
                  /\ size' = getImageSize(f.buffer)
                  /\ IF ValidateOf(name, realType', size') # NoRes
                     THEN staged' = 0 /\ RespondEarly(ValidateOf(name, realType', size'))
                     ELSE StageAndForward
    /\ UNCHANGED pureVars

Part001Request == ValidatedRequest("part001")
Part001Reply == Finish("part001")

ServerBRequest == ValidatedRequest("serverB")
ServerBReply == Finish("serverB")

\* /analyze-image of index.js: multer has stored the upload on disk before
\* the handler runs; a missing key or base URL is a 500, no file a 400
IndexRequest ==
    /\ pc = "idle"
    /\ handler' = "index"
    /\ \E f \in Uploads, key \in BOOLEAN, base \in BOOLEAN :
          /\ file' = f
          /\ staged' = IF f.present THEN 1 ELSE 0
          /\ IF ~key \/ ~base
             THEN RespondEarly(Res(500, Undef, Undef, "error"))
             ELSE IF ~f.present
             THEN RespondEarly(Res(400, Undef, Undef, "error"))
             ELSE /\ forwarded' = 1
                  /\ pc' = "awaiting"
                  /\ UNCHANGED <<heap, reply, extracted, res>>
    /\ UNCHANGED <<pureVars, realType, size>>
IndexReply == Finish("index")

\* the request is over; nothing of it is kept
NextRequest ==
    /\ pc = "responded"
    /\ heap' = <<>>
    /\ handler' = "none"
    /\ pc' = "idle"
    /\ file' = NoFile
    /\ realType' = "none"
    /\ size' = NoSize
    /\ reply' = NoReply
    /\ staged' = 0
    /\ forwarded' = 0
    /\ extracted' = Undef
    /\ res' = NoRes
    /\ UNCHANGED pureVars

Next ==
    \/ Part000Request \/ Part000Reply
    \/ Part001Request \/ Part001Reply
    \/ ServerBRequest \/ ServerBReply
    \/ ServerCRequest \/ ServerCReply
    \/ IndexRequest \/ IndexReply
    \/ NextRequest

Spec == Init /\ [][Next]_vars

-----------------------------------------------------------------------------
(* Direct calls of the sniffer: sniffType, then getImageSize, on one       *)
(* buffer, as the handlers call them.  handler tells whose sniffType it is. *)

\* most segments generated before the frame header
MaxSegments == 2

\* a JPEG marker segment: FF, the marker, the length (which counts its own
\* two bytes), the payload
Segment(marker, payload) == <<255, marker>> \o U16(Len(payload) + 2) \o payload

\* the payload of a frame header: precision, height, width, one component
SofPayload(hgt, w) == <<8>> \o U16(hgt) \o U16(w) \o <<1, 1, 17, 0>>

\* segments that may precede the frame header: APP0, an empty APP0, a table,
\* and a comment whose text looks like a frame header of 9 by 9
Leading ==
    { Segment(224, <<74, 70, 73, 70, 0>>),
      Segment(224, <<>>),
      Segment(219, <<0, 1, 2>>),
      Segment(254, <<255, 192, 0, 11>> \o SofPayload(9, 9)) }

RECURSIVE Flatten(_)
Flatten(segs) == IF segs = <<>> THEN <<>> ELSE Head(segs) \o Flatten(Tail(segs))

\* the frame headers tried: none, or SOF0 / SOF2 with a height and a width
Frames ==
    {[marker |-> 0, height |-> 0, width |-> 0]}
    \cup [marker : {192, 194}, height : {100, 300}, width : {100, 200}]

\* what a well-formed JPEG is made of: leading segments, a frame header or
\* none, and whether the end-of-image marker closes the buffer
JpegShapes ==
    [pre : UNION {[1..n -> Leading] : n \in 0..MaxSegments},
     sof : Frames,
     eoi : BOOLEAN]

\* the bytes of such a JPEG
JpegOf(d) ==
    <<255, 216>> \o Flatten(d.pre)
    \o (IF d.sof.marker = 0 THEN <<>>
        ELSE Segment(d.sof.marker, SofPayload(d.sof.height, d.sof.width)))
    \o (IF d.eoi THEN <<255, 217>> ELSE <<>>)

\* the buffers sniffed: the uploads of the handlers, short buffers with a
\* signature, two-byte and four-byte PNG prefixes, and the well-formed JPEGs
SniffBuffers ==
    Buffers
    \cup { <<255, 216, 255, 192, 0, 17, 8, 0, 100, 0, 100>>,
           <<255, 216, 255, 192, 0, 17, 8, 0, 100, 0>>,
           <<255, 216, 255>>,
           <<137, 80>> \o Zeros(10),
           <<137, 80, 78, 71>> \o Zeros(8),
           <<137, 80>> \o Zeros(23),
           <<255, 216>> \o Zeros(10),
           <<255, 216, 255, 224, 255, 255>> \o Zeros(6),
           <<82, 73, 70, 70, 0, 0, 0, 0, 87, 69, 66, 80, 86, 80, 56, 32>>,
           Zeros(11), Zeros(30) }
    \cup {JpegOf(d) : d \in JpegShapes}

InitSniff ==
    /\ fn = "none"
    /\ arg = Undef
    /\ heap = <<>>
    /\ ret = Undef
    /\ lab = Undef
    /\ handler \in {"part001", "serverB"}
    /\ \E b \in SniffBuffers : file = [present |-> TRUE, buffer |-> b]
    /\ pc = "idle"
    /\ realType = "none"
    /\ size = NoSize
    /\ reply = NoReply
    /\ staged = 0
    /\ forwarded = 0
    /\ extracted = Undef
    /\ res = NoRes

\* const realType = sniffType(req.file.buffer)
CallSniffType ==
    /\ fn = "none"
    /\ fn' = "sniffType"
    /\ realType' = SniffOf(handler, file.buffer)
    /\ UNCHANGED <<arg, heap, ret, lab, handler, pc, file, size, reply, staged,
                   forwarded, extracted, res>>

\* const size = getImageSize(req.file.buffer)
CallGetImageSize ==
    /\ fn = "sniffType"
    /\ fn' = "getImageSize"
    /\ size' = getImageSize(file.buffer)
    /\ UNCHANGED <<arg, heap, ret, lab, handler, pc, file, realType, reply, staged,
                   forwarded, extracted, res>>

NextSniff == CallSniffType \/ CallGetImageSize

SpecSniff == InitSniff /\ [][NextSniff]_vars

-----------------------------------------------------------------------------
(* Claims about the pure functions, checked under SpecPure                 *)

InUnitRange(v) == v.t = "number" /\ 0 <= v.n /\ v.n <= Unit

\* C1: for every finite numeric input v, normalizeScore gives v itself when
\* 0 <= v <= 1, v/100 when 1 < v <= 100, and null when v < 0 or v > 100; an
\* out-of-range value is never clamped into [0,1].
C1_RangeFolding ==
    (fn = "normalizeScore" /\ arg.t = "number") =>
        /\ (0 <= arg.n /\ arg.n <= Unit) => ret = arg
        /\ (Unit < arg.n /\ arg.n <= 100 * Unit) =>
               (ret.t = "number" /\ ret.n * 100 = arg.n)
        /\ (arg.n < 0 \/ arg.n > 100 * Unit) => ret = Null

\* normalizeScore(150) has returned null
C1_Witness == fn = "normalizeScore" /\ arg = P(15000) /\ ret = Null

\* C2: whenever extractScore returns, it returns null or a number of [0,1]:
\* never NaN, never a negative value, never a value above 1, also when the
\* value comes from the inverted human_probability.
C2_ExtractRange ==
    (fn = "extractScore" /\ ret # Thrown) => (ret = Null \/ InUnitRange(ret))

\* extractScore({human_probability: 0.2}) has returned 0.8
C2_Witness ==
    /\ fn = "extractScore"
    /\ heap = <<Obj(With1("human_probability", P(20)))>>
    /\ ret = P(80)

\* the object extractScore was called on, when it was called on a lone object
\* whose wrapper properties are all absent
LoneObject ==
    /\ fn = "extractScore"
    /\ arg = Ref(1)
    /\ Len(heap) = 1
    /\ \A w \in AllWrappers : heap[1].f[w] = Undef

\* C3 (as claimed): the direct candidates are tried in the order
\* ai_probability, aiProbability, ai_score, score: of the candidates present
\* in one object, the earliest in that order that normalizes gives the result.
C3_ClaimedOrder ==
    LET order == <<"ai_probability", "aiProbability", "ai_score", "score">>
        o     == heap[1].f
    IN  (LoneObject /\ \A k \in AllCandKeys \ Range(order) : o[k] = Undef) =>
            \A i \in 1..Len(order) :
                (/\ normalizeScore(o[order[i]]) # Null
                 /\ \A j \in 1..(i - 1) : normalizeScore(o[order[j]]) = Null)
                => ret = normalizeScore(o[order[i]])

\* C4 (as claimed): a lone human_probability is normalized to n in [0,1]
\* first and the result is 1 - n.
C4_NormalizeThenInvert ==
    LET o == heap[1].f
    IN  (/\ LoneObject
         /\ \A k \in Range(DirectKeys) : o[k] = Undef
         /\ normalizeScore(o["human_probability"]) # Null)
        => ret = Num(Unit - normalizeScore(o["human_probability"]).n)

\* C5 (as claimed): when no direct candidate of the outer object normalizes, a
\* score that exists only inside one of the containers data, result, output,
\* content is returned; a direct candidate of the outer object that
\* normalizes wins over a nested one.
C5_FourContainers ==
    (fn = "extractScore" /\ arg = Ref(1)) =>
        LET outer == FirstScore(Candidates(heap, Ref(1)))
        IN  /\ outer # Null => ret = outer
            /\ \A w \in {"data", "result", "output", "content"} :
                  LET c     == heap[1].f[w]
                      inner == FirstScore(Candidates(heap, c))
                  IN  (/\ outer = Null
                       /\ \A x \in AllWrappers \ {w} : heap[1].f[x] = Undef
                       /\ c.t = "object"
                       /\ inner # Null)
                      => ret = inner

\* C6 (as claimed): extractScore ends with a result, a score or null, on
\* every input, a self-referential one included.
C6_EndsWithResult ==
    fn = "extractScore" => (ret = Null \/ ret.t = "number")

\* C7: the thresholds give every score s of [0,1] exactly one label: AI when
\* s >= 0.65, Human when s <= 0.35, Mixed in between; 0.65 itself is AI and
\* 0.35 itself is Human.
C7_Thresholds ==
    lab # Undef =>
        /\ InUnitRange(ret)
        /\ ret.n >= 65 * Hundred => lab = LabelAI
        /\ ret.n <= 35 * Hundred => lab = LabelHuman
        /\ (35 * Hundred < ret.n /\ ret.n < 65 * Hundred) => lab = LabelMixed

\* the score 0.65 has been labelled AI
C7_Witness == ret = P(65) /\ lab = LabelAI

-----------------------------------------------------------------------------
(* Claims about the handlers, checked under Spec                           *)

\* the handler has sent the response of its final return statement
Succeeded == pc = "responded" /\ res.kind = "result"

\* C8 (as claimed): after a successful provider call the response of the
\* detection handlers of part_000 and part_001 has label Unknown exactly
\* when no score was extracted, and then ai_score is 0.5; when a score was
\* extracted the label is AI, Human or Mixed and ai_score is that score.
C8_UnknownIffAbsent ==
    (Succeeded /\ handler \in {"part000", "part001"}) =>
        /\ res.label = LabelUnknown <=> extracted = Null
        /\ extracted = Null => res.ai_score = P(50)
        /\ extracted # Null =>
              (res.label \in {LabelAI, LabelHuman, LabelMixed} /\ res.ai_score = extracted)

\* C9 (as claimed): an upload whose sniffed format is unknown, or whose
\* extracted width or height is below 256, is rejected with status 400, and
\* nothing is written to the upload directory or sent to the provider.
C9_ValidationGate ==
    (realType = "unknown" \/ (size.t = "size" /\ (size.width < 256 \/ size.height < 256)))
    => (pc = "responded" /\ res.status = 400 /\ staged = 0 /\ forwarded = 0)

\* C10 (as claimed): every result returned after a successful provider call
\* has a numeric ai_score in [0,1] and a label among AI, Human, Mixed, Unknown.
C10_DetectionResult ==
    Succeeded =>
        /\ InUnitRange(res.ai_score)
        /\ res.label \in {LabelAI, LabelHuman, LabelMixed, LabelUnknown}

-----------------------------------------------------------------------------
(* Further claims about normalizeScore, checked under SpecPure             *)

\* C15: for every number v of (1,100], where v can be read as a percentage,
\* normalizeScore(v) equals normalizeScore(v/100); and the boundary input 1 is
\* read as the fraction 1.0 (result 1), not as 1% (result 0.01).
C15_RoundTrip ==
    (fn = "normalizeScore" /\ arg.t = "number") =>
        /\ (Unit < arg.n /\ arg.n <= 100 * Unit) =>
               (ret # Null /\ ret = normalizeScore(Div100(arg)))
        /\ arg.n = Unit => (ret = Num(Unit) /\ ret # normalizeScore(Div100(arg)))

\* normalizeScore(87) has returned 0.87, which normalizeScore(0.87) is too
C15_Witness ==
    /\ fn = "normalizeScore"
    /\ arg = P(8700)
    /\ ret = P(87)
    /\ normalizeScore(P(87)) = P(87)

\* the string a without surrounding white space and without one trailing "%"
Stripped(a) ==
    IF Trim(a) # <<>> /\ Trim(a)[Len(Trim(a))] = "%"
    THEN Trim(SubSeq(Trim(a), 1, Len(Trim(a)) - 1))
    ELSE Trim(a)

\* what the claim gives a stripped string b: its range-folded value when all
\* of b is a number, absent otherwise
WholeNumberOf(b) ==
    IF NumPrefix(b).ok /\ NumPrefix(b).len = Len(b)
    THEN FoldRange(Num(NumPrefix(b).val))
    ELSE Null

\* C16 (as claimed): null and undefined give absent; a string is stripped of
\* surrounding white space and of one trailing "%", and gives its range-folded
\* value when what is left is a number and absent when it is not (a number
\* followed by other text, a "%" that is not trailing); booleans and objects
\* give absent.
C16_StringInputs ==
    fn = "normalizeScore" =>
        /\ Nullish(arg) => ret = Null
        /\ arg.t = "string" => ret = WholeNumberOf(Stripped(arg.s))
        /\ arg.t \in {"boolean", "object"} => ret = Null

-----------------------------------------------------------------------------
(* Claims about the sniffer, checked under SpecSniff                       *)

\* sniffType and getImageSize have both returned or raised
Sniffed == fn = "getImageSize"

\* C11 (as claimed): for every buffer of 0 to 11 bytes, whatever its bytes,
\* the format is unknown and no width and height are given.
C11_ShortIsUnknown ==
    (Sniffed /\ Len(file.buffer) < 12) => (realType = "unknown" /\ size = NoSize)

\* the format the priority list gives a buffer of 12 bytes or more: the
\* four-byte PNG signature, then FF D8, then RIFF....WEBP in more than 12 bytes
ClaimedFormat(b) ==
    IF <<b[1], b[2], b[3], b[4]>> = <<137, 80, 78, 71>> THEN "png"
    ELSE IF <<b[1], b[2]>> = <<255, 216>> THEN "jpeg"
    ELSE IF /\ Len(b) > 12
            /\ SubSeq(b, 1, 4) = <<82, 73, 70, 70>>
            /\ SubSeq(b, 9, 12) = <<87, 69, 66, 80>> THEN "webp"
    ELSE "unknown"

\* C12 (as claimed): for every buffer of 12 bytes or more, part_001 says png
\* exactly for the signature 89 50 4E 47, otherwise jpeg exactly for FF D8,
\* otherwise webp exactly for RIFF....WEBP in more than 12 bytes, otherwise
\* unknown; a width and height are given only for png and jpeg.
C12_FormatPriority ==
    (Sniffed /\ handler = "part001" /\ Len(file.buffer) >= 12) =>
        /\ realType = ClaimedFormat(file.buffer)
        /\ size.t = "size" => realType \in {"png", "jpeg"}

\* C13 (as claimed): on every buffer that starts with FF D8 the scan raises
\* nothing: it ends with a width and height or with none.
C13_ScanTotal ==
    (Sniffed /\ Len(file.buffer) >= 2 /\ SubSeq(file.buffer, 1, 2) = <<255, 216>>)
    => size.t \in {"size", "null"}

\* C14 (as claimed): on a well-formed JPEG the scan walks from segment to
\* segment and gives the height and width of the first SOF0 / SOF2 header,
\* wherever a look-alike sits in an earlier payload, and no width and height
\* when the JPEG has no such header.
C14_SegmentWalk ==
    Sniffed =>
        \A d \in JpegShapes :
            file.buffer = JpegOf(d) =>
                size = IF d.sof.marker = 0 THEN NoSize
                       ELSE Size(d.sof.width, d.sof.height)
====
